---- MODULE Spec2Model ----
(***************************************************************************)
(* A model of web_scraper.py: text normalisation (clean_text), positional  *)
(* extraction (extract_items_from_soup), next-page discovery               *)
(* (find_next_page_url) and the two scrape routines (scrape_single_page,   *)
(* scrape_with_pagination).                                                *)
(*                                                                         *)
(* Strings are sequences of characters; a character is a one-symbol TLA+   *)
(* string.  The curly quotation marks are written by name: "LDQUO" is      *)
(* U+201C, "RDQUO" is U+201D, "RSQUO" is U+2019, "LSQUO" is U+2018.        *)
(***************************************************************************)
EXTENDS Integers, Sequences, FiniteSets, TLC

VARIABLES
    \* --- one invocation of scrape_with_pagination (lines 109-140)
    start_url, max_pages, visited, results, seen_keys, url, pages,
    soup, items, idx, pc,
    \* --- one invocation of scrape_single_page on the same start URL
    single, spc,
    \* --- the environment: what the transport and the parser answer per URL
    web,
    \* --- history: the http_get calls and the items met by the for loop
    fetched, encountered,
    \* --- one call of a pure function: its argument and its return value
    arg, ret

vars == <<start_url, max_pages, visited, results, seen_keys, url, pages,
          soup, items, idx, pc, single, spc, web, fetched, encountered,
          arg, ret>>

crawlVars == <<start_url, max_pages, visited, results, seen_keys, url, pages,
               soup, items, idx, pc, single, spc, web, fetched, encountered>>

-----------------------------------------------------------------------------
(* Bounds of the model *)

\* longest input string given to clean_text
MaxLen == 3
\* most text nodes / attribution nodes on a page given to the extractor
MaxNodes == 2
\* largest integer passed as max_pages
MaxK == 3
\* cap on the number of http_get calls of one crawl
MaxFetches == 4

-----------------------------------------------------------------------------
(* Values *)

\* Python's None
None == [tag |-> "None"]
\* a call that has not returned yet, and one that returned v
Pending == [tag |-> "Pending"]
Returned(v) == [tag |-> "Returned", val |-> v]

Min(a, b) == IF a <= b THEN a ELSE b

RECURSIVE SeqsUpTo(_, _)
SeqsUpTo(S, n) ==
    IF n = 0 THEN {<<>>}
    ELSE LET shorter == SeqsUpTo(S, n - 1)
         IN shorter \cup {Append(s, c) : s \in {t \in shorter : Len(t) = n - 1}, c \in S}

-----------------------------------------------------------------------------
(* clean_text, lines 61-67 *)

\* str.isspace(), which both str.strip() and the regex class \s use
IsSpace(c) == c \in {" ", "\t", "\n"}

RECURSIVE lstrip(_)
lstrip(s) ==
    IF s # <<>> /\ IsSpace(Head(s)) THEN lstrip(Tail(s)) ELSE s

RECURSIVE rstrip(_)
rstrip(s) ==
    IF s # <<>> /\ IsSpace(s[Len(s)]) THEN rstrip(SubSeq(s, 1, Len(s) - 1)) ELSE s

\* a strip that removes only the ASCII blank
RECURSIVE strip_blank_only(_)
strip_blank_only(s) ==
    IF s # <<>> /\ Head(s) = " " THEN strip_blank_only(Tail(s))
    ELSE IF s # <<>> /\ s[Len(s)] = " " THEN strip_blank_only(SubSeq(s, 1, Len(s) - 1))
    ELSE s

\* s.strip(), line 64
strip(s) == rstrip(lstrip(s))

\* s.replace(old, new) for one-character old and new, line 65
replace(s, old, new) ==
    [i \in 1..Len(s) |-> IF s[i] = old THEN new ELSE s[i]]

\* re.sub(r"\s+", " ", s), line 66: every maximal whitespace run becomes one blank
RECURSIVE re_sub_spaces(_)
re_sub_spaces(s) ==
    IF s = <<>> THEN <<>>
    ELSE IF IsSpace(Head(s)) THEN <<" ">> \o re_sub_spaces(lstrip(Tail(s)))
    ELSE <<Head(s)>> \o re_sub_spaces(Tail(s))

clean_text(s) ==
    IF s = <<>> THEN <<>>
    ELSE LET s1 == strip(s)
             s2 == replace(replace(replace(s1, "LDQUO", "\""), "RDQUO", "\""), "RSQUO", "'")
         IN re_sub_spaces(s2)

-----------------------------------------------------------------------------
(* extract_items_from_soup, lines 71-81 *)

\* QuoteItem, lines 32-35
QuoteItem(q, a) == [quote |-> q, author |-> a]

\* QuoteItem.key, lines 37-38
key(item) == <<item.quote, item.author>>

\* a filter that keeps a pair when either side is non-empty
keep_either(q, a) == q # <<>> \/ a # <<>>

\* "if q and a", line 79
keep(q, a) == q # <<>> /\ a # <<>>

\* the for loop over zip(quotes, authors), lines 76-80: zip stops at the shorter list
RECURSIVE zip_loop(_, _)
zip_loop(quotes, authors) ==
    IF quotes = <<>> \/ authors = <<>> THEN <<>>
    ELSE LET q == clean_text(Head(quotes))
             a == clean_text(Head(authors))
         IN (IF keep(q, a) THEN <<QuoteItem(q, a)>> ELSE <<>>)
            \o zip_loop(Tail(quotes), Tail(authors))

\* sp.quotes and sp.authors are the get_text() of the nodes that find_all returns
\* for QUOTE_SELECTOR and AUTHOR_SELECTOR, in document order (lines 72-73)
extract_items_from_soup(sp) == zip_loop(sp.quotes, sp.authors)

-----------------------------------------------------------------------------
(* find_next_page_url, lines 84-97 *)

\* an absolute URL: a host and the segments of its path
URL(h, p) == [tag |-> "url", host |-> h, path |-> p]

\* the value of an href attribute: absolute ("http://host/p/q"), root-relative
\* ("/p/q"), relative ("q") or the empty string
AbsHref(h, p) == [kind |-> "abs", host |-> h, path |-> p]
RootHref(p) == [kind |-> "root", path |-> p]
RelHref(p) == [kind |-> "rel", path |-> p]
EmptyHref == [kind |-> "empty"]

\* the path without its last segment
DirOf(p) == IF p = <<>> THEN <<>> ELSE SubSeq(p, 1, Len(p) - 1)

\* urllib.parse.urljoin(base_url, href) for a non-empty href, line 96
urljoin(base, href) ==
    CASE href.kind = "abs" -> URL(href.host, href.path)
      [] href.kind = "root" -> URL(base.host, href.path)
      [] href.kind = "rel" -> URL(base.host, DirOf(base.path) \o href.path)

\* a (tag, attributes) selector, named by the field of the searched node that
\* holds the answer of find for it
Selector(f) == [tag |-> "selector", field |-> f]

\* soup.find(*sel) and parent.find(*sel): the first matching node, or None
find(node, sel) == node[sel.field]

\* lines 16-19
NEXT_PAGE_STRATEGIES ==
    << [css |-> Selector("li_next"), child |-> Selector("a")],
       [css |-> Selector("a_rel_next"), child |-> None] >>

\* Python truth of an Optional[str]: None and "" are false
Truthy(href) == href # None /\ href # EmptyHref

\* one iteration of the loop, lines 86-96: the URL it returns, or None to continue
try_strategy(sp, base_url, strat) ==
    LET parent == find(sp, strat.css)
    IN IF parent = None THEN None
       ELSE LET node == IF strat.child # None THEN find(parent, strat.child) ELSE parent
                href == IF node # None THEN node.href ELSE None
            IN IF Truthy(href) THEN urljoin(base_url, href) ELSE None

RECURSIVE strategy_loop(_, _, _)
strategy_loop(sp, base_url, i) ==
    IF i > Len(NEXT_PAGE_STRATEGIES) THEN None
    ELSE LET r == try_strategy(sp, base_url, NEXT_PAGE_STRATEGIES[i])
         IN IF r # None THEN r ELSE strategy_loop(sp, base_url, i + 1)

\* a resolver that gives up after the first strategy
first_strategy_only(sp, base_url) ==
    try_strategy(sp, base_url, NEXT_PAGE_STRATEGIES[1])

find_next_page_url(sp, base_url) == strategy_loop(sp, base_url, 1)

-----------------------------------------------------------------------------
(* The environment of a crawl: the transport and the parser *)

\* max_pages: Optional[int], line 109
Limit(k) == [tag |-> "int", val |-> k]

\* http_get returned None (lines 56-58)
FetchFailure == [status |-> "fail"]
\* http_get returned a response and BeautifulSoup(resp.text, "html.parser")
\* raised instead of returning a tree (line 125 has no handler around it)
Rejected == [status |-> "ok", parse |-> "rejected"]
\* http_get returned a response and the parser returned the tree sp
Parsed(sp) == [status |-> "ok", parse |-> "tree", soup |-> sp]

\* the text and attribution nodes of the pages on the site: no records; one
\* record; the same record twice, with an unmatched third attribution; two
\* further records, the first with a curly quote
SiteBodies ==
    { [quotes |-> <<>>, authors |-> << <<"a">> >>],
      [quotes |-> << <<"x">> >>, authors |-> << <<"a">> >>],
      [quotes |-> << <<"\t", "x", " ">>, <<"x">> >>,
       authors |-> << <<"a">>, <<"a">>, <<"b">> >>],
      [quotes |-> << <<"LDQUO", "y">>, <<"x">> >>, authors |-> << <<"b">>, <<"b">> >>] }

\* the pagination markup of the pages on the site: none; li.next > a with a
\* relative, a root-relative or an absolute href; li.next whose anchor has no
\* href, followed by a[rel=next] with a relative href
SiteLinks ==
    { [li_next |-> None, a_rel_next |-> None],
      [li_next |-> [a |-> [href |-> RelHref(<<"b">>)]], a_rel_next |-> None],
      [li_next |-> [a |-> [href |-> RootHref(<<"a">>)]], a_rel_next |-> None],
      [li_next |-> [a |-> [href |-> AbsHref("h", <<"d", "b">>)]], a_rel_next |-> None],
      [li_next |-> [a |-> [href |-> None]], a_rel_next |-> [href |-> RelHref(<<"b">>)]] }

SitePages ==
    { [quotes |-> b.quotes, authors |-> b.authors,
       li_next |-> l.li_next, a_rel_next |-> l.a_rel_next] : b \in SiteBodies, l \in SiteLinks }

Responses == {FetchFailure, Rejected} \cup {Parsed(sp) : sp \in SitePages}

StartUrls == { URL("h", <<"a">>), URL("h", <<"d", "b">>) }

\* the transport and the parser answer r for URL u; a URL asked twice answers
\* the same both times
Answers(u, r) ==
    /\ r \in Responses
    /\ u \in DOMAIN web => r = web[u]

Remember(u, r) == [v \in DOMAIN web \cup {u} |-> IF v = u THEN r ELSE web[v]]

-----------------------------------------------------------------------------
(* scrape_with_pagination, lines 109-140 *)

\* lines 110-115
Init ==
    /\ start_url \in StartUrls
    /\ max_pages \in {None} \cup {Limit(k) : k \in 0..MaxK}
    /\ visited = {}
    /\ results = <<>>
    /\ seen_keys = {}
    /\ url = start_url
    /\ pages = 0
    /\ soup = None
    /\ items = <<>>
    /\ idx = 0
    /\ pc = "while"
    /\ single = <<>>
    /\ spc = "idle"
    /\ web = <<>>
    /\ fetched = <<>>
    /\ encountered = <<>>
    /\ arg = None
    /\ ret = Pending

\* a loop test that forgets the visited set
LoopCondition_url_only(u, v) == u # None

\* "while url and url not in visited", line 117
LoopCondition(u, v) == u # None /\ u \notin v

\* a loop that never records the URL
MarkVisited_forgets(v, u) == v

\* visited.add(url), line 119
MarkVisited(v, u) == v \cup {u}

\* a test that takes every key for a new one
KeyNotSeen_always(k, seen) == TRUE

\* "if k not in seen_keys", line 130
KeyNotSeen(k, seen) == k \notin seen

\* "if max_pages is not None and pages >= max_pages", line 135
ReachedMaxPages(mp, p) == mp # None /\ p >= mp.val

\* lines 117-119: the loop test passes and the URL is marked visited
LoopEnter ==
    /\ pc = "while"
    /\ LoopCondition(url, visited)
    /\ visited' = MarkVisited(visited, url)
    /\ pc' = "http_get"
    /\ UNCHANGED <<start_url, max_pages, results, seen_keys, url, pages, soup, items,
                   idx, single, spc, web, fetched, encountered, arg, ret>>

\* line 117 fails (no next link, or a URL already visited), line 140 returns
LoopExit ==
    /\ pc = "while"
    /\ ~LoopCondition(url, visited)
    /\ pc' = "done"
    /\ UNCHANGED <<start_url, max_pages, visited, results, seen_keys, url, pages, soup,
                   items, idx, single, spc, web, fetched, encountered, arg, ret>>

\* a failure branch that returns an empty list, as scrape_single_page does
FetchFail_returns_empty ==
    /\ pc = "http_get"
    /\ Len(fetched) < MaxFetches
    /\ Answers(url, FetchFailure)
    /\ web' = Remember(url, FetchFailure)
    /\ fetched' = Append(fetched, url)
    /\ results' = <<>>
    /\ pc' = "done"
    /\ UNCHANGED <<start_url, max_pages, visited, seen_keys, url, pages, soup,
                   items, idx, single, spc, encountered, arg, ret>>

\* lines 121-123: http_get returns None, break, line 140 returns
FetchFail ==
    /\ pc = "http_get"
    /\ Len(fetched) < MaxFetches
    /\ Answers(url, FetchFailure)
    /\ web' = Remember(url, FetchFailure)
    /\ fetched' = Append(fetched, url)
    /\ pc' = "done"
    /\ UNCHANGED <<start_url, max_pages, visited, results, seen_keys, url, pages, soup,
                   items, idx, single, spc, encountered, arg, ret>>

\* lines 121-125: the fetch succeeds and the parser raises; nothing catches it,
\* so the exception leaves scrape_with_pagination
FetchParseRaises ==
    /\ pc = "http_get"
    /\ Len(fetched) < MaxFetches
    /\ Answers(url, Rejected)
    /\ web' = Remember(url, Rejected)
    /\ fetched' = Append(fetched, url)
    /\ pc' = "raised"
    /\ UNCHANGED <<start_url, max_pages, visited, results, seen_keys, url, pages, soup,
                   items, idx, single, spc, encountered, arg, ret>>

\* lines 121-127: the fetch succeeds, the page is parsed and its items extracted
FetchOk ==
    /\ pc = "http_get"
    /\ Len(fetched) < MaxFetches
    /\ \E sp \in SitePages :
         /\ Answers(url, Parsed(sp))
         /\ web' = Remember(url, Parsed(sp))
         /\ soup' = sp
         /\ items' = extract_items_from_soup(sp)
    /\ fetched' = Append(fetched, url)
    /\ idx' = 1
    /\ pc' = "for"
    /\ UNCHANGED <<start_url, max_pages, visited, results, seen_keys, url, pages,
                   single, spc, encountered, arg, ret>>

\* lines 128-132, one iteration whose key is new
ItemAppend ==
    /\ pc = "for"
    /\ idx <= Len(items)
    /\ KeyNotSeen(key(items[idx]), seen_keys)
    /\ results' = Append(results, items[idx])
    /\ seen_keys' = seen_keys \cup {key(items[idx])}
    /\ encountered' = Append(encountered, items[idx])
    /\ idx' = idx + 1
    /\ UNCHANGED <<start_url, max_pages, visited, url, pages, soup, items, pc,
                   single, spc, web, fetched, arg, ret>>

\* lines 128-130, one iteration whose key was seen before
ItemSkip ==
    /\ pc = "for"
    /\ idx <= Len(items)
    /\ ~KeyNotSeen(key(items[idx]), seen_keys)
    /\ encountered' = Append(encountered, items[idx])
    /\ idx' = idx + 1
    /\ UNCHANGED <<start_url, max_pages, visited, results, seen_keys, url, pages, soup,
                   items, pc, single, spc, web, fetched, arg, ret>>

\* lines 134-136 and 140: the page is counted, the limit is reached, break
PageLimitBreak ==
    /\ pc = "for"
    /\ idx > Len(items)
    /\ pages' = pages + 1
    /\ ReachedMaxPages(max_pages, pages')
    /\ pc' = "done"
    /\ UNCHANGED <<start_url, max_pages, visited, results, seen_keys, url, soup, items,
                   idx, single, spc, web, fetched, encountered, arg, ret>>

\* lines 134-138: the page is counted and the next URL is looked up
Advance ==
    /\ pc = "for"
    /\ idx > Len(items)
    /\ pages' = pages + 1
    /\ ~ReachedMaxPages(max_pages, pages')
    /\ url' = find_next_page_url(soup, url)
    /\ pc' = "while"
    /\ UNCHANGED <<start_url, max_pages, visited, results, seen_keys, soup, items,
                   idx, single, spc, web, fetched, encountered, arg, ret>>

-----------------------------------------------------------------------------
(* scrape_single_page(start_url), lines 101-106, called after the crawl ended *)

Ended == pc \in {"done", "raised"}

\* lines 102-104
SingleFetchFail ==
    /\ Ended /\ spc = "idle"
    /\ Answers(start_url, FetchFailure)
    /\ web' = Remember(start_url, FetchFailure)
    /\ single' = <<>>
    /\ spc' = "done"
    /\ UNCHANGED <<start_url, max_pages, visited, results, seen_keys, url, pages, soup,
                   items, idx, pc, fetched, encountered, arg, ret>>

\* line 105 raises
SingleParseRaises ==
    /\ Ended /\ spc = "idle"
    /\ Answers(start_url, Rejected)
    /\ web' = Remember(start_url, Rejected)
    /\ spc' = "raised"
    /\ UNCHANGED <<start_url, max_pages, visited, results, seen_keys, url, pages, soup,
                   items, idx, pc, single, fetched, encountered, arg, ret>>

\* lines 105-106
SingleOk ==
    /\ Ended /\ spc = "idle"
    /\ \E sp \in SitePages :
         /\ Answers(start_url, Parsed(sp))
         /\ web' = Remember(start_url, Parsed(sp))
         /\ single' = extract_items_from_soup(sp)
    /\ spc' = "done"
    /\ UNCHANGED <<start_url, max_pages, visited, results, seen_keys, url, pages, soup,
                   items, idx, pc, fetched, encountered, arg, ret>>

Next ==
    \/ LoopEnter
    \/ LoopExit
    \/ FetchFail
    \/ FetchParseRaises
    \/ FetchOk
    \/ ItemAppend
    \/ ItemSkip
    \/ PageLimitBreak
    \/ Advance
    \/ SingleFetchFail
    \/ SingleParseRaises
    \/ SingleOk

Spec == Init /\ [][Next]_vars

\* the interpreter runs the next statement whenever there is one
FairSpec == Spec /\ WF_vars(Next)

-----------------------------------------------------------------------------
(* Properties of scrape_with_pagination *)

A == URL("h", <<"a">>)
B == URL("h", <<"b">>)

IsPrefix(s, t) == Len(s) <= Len(t) /\ SubSeq(t, 1, Len(s)) = s

\* the same (quote, author) pair
SameKey(x, y) == x.quote = y.quote /\ x.author = y.author

NoTwoShareKey(seq) ==
    \A i, j \in 1..Len(seq) : SameKey(seq[i], seq[j]) => i = j

\* seq without every element that has an earlier element of the same key
RECURSIVE FirstOccurrences(_)
FirstOccurrences(seq) ==
    IF seq = <<>> THEN <<>>
    ELSE LET n == Len(seq)
             before == SubSeq(seq, 1, n - 1)
         IN IF \E j \in 1..(n - 1) : SameKey(seq[j], seq[n])
            THEN FirstOccurrences(before)
            ELSE Append(FirstOccurrences(before), seq[n])

\* C1: at every point of a crawl no two records of the result sequence share a
\* (quote, author) key, the sequence holds the first occurrence of every key met
\* so far in page order then within-page order, and no step moves a record that
\* is already in it
C1_DedupInvariant ==
    /\ [](NoTwoShareKey(results) /\ results = FirstOccurrences(encountered))
    /\ [][IsPrefix(results, results')]_vars

\* a finished two-page crawl that met the same key three times, twice on one page
C1_Witness ==
    /\ pc = "done"
    /\ Len(fetched) = 2
    /\ Len(encountered) = 3
    /\ Len(results) = 1
    /\ SameKey(encountered[1], encountered[3])

C3_MaxPagesBound ==
    max_pages # None => Len(fetched) <= max_pages.val

\* with max_pages = k >= 1 at most k fetches are issued, and with max_pages = 1
\* the second page is never fetched
C3_MaxPagesBoundPositive ==
    (max_pages # None /\ max_pages.val >= 1) => Len(fetched) <= max_pages.val

\* the cap on the fetches of one crawl is never what stops a fetch
CapNeverBinds == pc = "http_get" => Len(fetched) < Cardinality(visited)

\* C4: no URL is fetched twice; a URL is in the visited set when its fetch is
\* issued; when page 1 links to page 2 and page 2 links back to page 1, the
\* fetches are exactly page 1, page 2
C4_NoRefetch ==
    /\ \A i, j \in 1..Len(fetched) : fetched[i] = fetched[j] => i = j
    /\ pc = "http_get" => url \in visited
    /\ \A i \in 1..Len(fetched) : fetched[i] \in visited
    /\ ( /\ pc = "done"
         /\ max_pages = None
         /\ Len(fetched) >= 2
         /\ web[fetched[1]] \notin {FetchFailure, Rejected}
         /\ web[fetched[2]] \notin {FetchFailure, Rejected}
         /\ find_next_page_url(web[fetched[1]].soup, fetched[1]) = fetched[2]
         /\ find_next_page_url(web[fetched[2]].soup, fetched[2]) = fetched[1] )
       => fetched = <<fetched[1], fetched[2]>>

\* A links to B with a relative href, B links back to A with a root-relative
\* href, and the crawl of A has ended
C4_Witness ==
    /\ pc = "done"
    /\ start_url = A
    /\ max_pages = None
    /\ fetched = <<A, B>>
    /\ web[A] \notin {FetchFailure, Rejected}
    /\ web[B] \notin {FetchFailure, Rejected}
    /\ web[A].soup.li_next = [a |-> [href |-> RelHref(<<"b">>)]]
    /\ web[B].soup.li_next = [a |-> [href |-> RootHref(<<"a">>)]]

\* the records of the pages fetched so far that the transport delivered
RECURSIVE RecordsOf(_)
RecordsOf(us) ==
    IF us = <<>> THEN <<>>
    ELSE LET r == web[Head(us)]
         IN (IF r.status = "ok" /\ r.parse = "tree"
             THEN extract_items_from_soup(r.soup) ELSE <<>>)
            \o RecordsOf(Tail(us))

\* C5: whenever scrape_with_pagination returns (fetch failure, no next link,
\* max_pages reached, revisited URL) the result is the records of the fetched
\* pages in fetch order without later duplicates; a failed fetch is the last
\* fetch and ends the crawl with a return; the only way out that is not a
\* return is a page the parser rejected
C5_GracefulPartialResults ==
    /\ pc = "done" => results = FirstOccurrences(RecordsOf(fetched))
    /\ \A i \in 1..Len(fetched) :
         web[fetched[i]] = FetchFailure =>
            /\ i = Len(fetched)
            /\ pc = "done"
            /\ results = FirstOccurrences(RecordsOf(SubSeq(fetched, 1, i - 1)))
    /\ pc = "raised" => web[fetched[Len(fetched)]] = Rejected

\* the second fetch failed and the crawl returned the first page's records
C5_Witness ==
    /\ pc = "done"
    /\ Len(fetched) = 2
    /\ web[fetched[2]] = FetchFailure
    /\ Len(results) = 2

\* C6: a page the parser cannot turn into a tree ends the crawl with a return of
\* the records of the earlier pages; no exception leaves scrape_with_pagination
C6_MalformedDocumentReturns ==
    \A i \in 1..Len(fetched) : web[fetched[i]] = Rejected => pc = "done"

\* C7: scrape_single_page(url) returns what scrape_with_pagination(url, 1) returns
C7_SinglePageIsPaginationOfOne ==
    (max_pages = Limit(1) /\ pc = "done" /\ spc = "done") => single = results

-----------------------------------------------------------------------------
(* The pure functions, each called once on an argument drawn from a bounded set *)

Chars == {"x", " ", "\t", "LDQUO", "RDQUO", "RSQUO", "LSQUO", "\""}

Strings == SeqsUpTo(Chars, MaxLen)

InitClean ==
    /\ arg \in Strings
    /\ ret = Pending
    /\ start_url = None /\ max_pages = None /\ visited = {} /\ results = <<>>
    /\ seen_keys = {} /\ url = None /\ pages = 0 /\ soup = None /\ items = <<>>
    /\ idx = 0 /\ pc = "idle" /\ single = <<>> /\ spc = "idle" /\ web = <<>>
    /\ fetched = <<>> /\ encountered = <<>>

CallCleanText ==
    /\ ret = Pending
    /\ ret' = Returned(clean_text(arg))
    /\ UNCHANGED <<arg, crawlVars>>

NextClean == CallCleanText

SpecClean == InitClean /\ [][NextClean]_vars

\* C10: normalisation is idempotent: clean_text applied to a value clean_text
\* returned gives that value back
C10_CleanTextIdempotent ==
    ret # Pending => clean_text(ret.val) = ret.val

\* a call whose input had surrounding whitespace, an inner whitespace run and a
\* curly quote, so that every step of clean_text changed something
C10_Witness ==
    /\ ret # Pending
    /\ arg = <<"\t", "LDQUO", " ">>
    /\ ret = Returned(<<"\"">>)

-----------------------------------------------------------------------------
(* extract_items_from_soup called once *)

\* the get_text() of a node: plain, padded with whitespace, blank, empty, other
RawTexts == { <<"x">>, <<"\t", "x", " ">>, <<" ">>, <<>>, <<"y">> }

NodeTexts == SeqsUpTo(RawTexts, MaxNodes)

\* a parsed page with no pagination markup
Page(qs, as) == [quotes |-> qs, authors |-> as, li_next |-> None, a_rel_next |-> None]

InitExtract ==
    /\ arg \in {Page(qs, as) : qs \in NodeTexts, as \in NodeTexts}
    /\ ret = Pending
    /\ start_url = None /\ max_pages = None /\ visited = {} /\ results = <<>>
    /\ seen_keys = {} /\ url = None /\ pages = 0 /\ soup = None /\ items = <<>>
    /\ idx = 0 /\ pc = "idle" /\ single = <<>> /\ spc = "idle" /\ web = <<>>
    /\ fetched = <<>> /\ encountered = <<>>

CallExtractItems ==
    /\ ret = Pending
    /\ ret' = Returned(extract_items_from_soup(arg))
    /\ UNCHANGED <<arg, crawlVars>>

NextExtract == CallExtractItems

SpecExtract == InitExtract /\ [][NextExtract]_vars

\* the indices below min(m, n) whose pair survives normalisation
KeptIndices(sp) ==
    {i \in 1..Min(Len(sp.quotes), Len(sp.authors)) :
        clean_text(sp.quotes[i]) # <<>> /\ clean_text(sp.authors[i]) # <<>>}

\* the j-th smallest element of a set of integers
Nth(S, j) == CHOOSE i \in S : Cardinality({h \in S : h < i}) = j - 1

\* C8: the extractor's output is the sequence, by increasing index i up to
\* min(m, n), of the normalised (text_i, attribution_i) pairs, without the pairs
\* that have an empty side; so it has at most min(m, n) records, ignores the
\* unmatched tail of the longer list, and is empty when m = 0 or n = 0
C8_PositionalPairing ==
    ret # Pending =>
        LET out == ret.val
            kept == KeptIndices(arg)
        IN /\ Len(out) = Cardinality(kept)
           /\ \A j \in 1..Len(out) :
                 out[j] = [quote |-> clean_text(arg.quotes[Nth(kept, j)]),
                           author |-> clean_text(arg.authors[Nth(kept, j)])]
           /\ Len(out) <= Min(Len(arg.quotes), Len(arg.authors))
           /\ (arg.quotes = <<>> \/ arg.authors = <<>>) => out = <<>>

\* two text nodes and one attribution node: the second text node is unmatched
C8_Witness ==
    /\ arg.quotes = << <<"\t", "x", " ">>, <<"y">> >>
    /\ arg.authors = << <<"y">> >>
    /\ ret = Returned(<< [quote |-> <<"x">>, author |-> <<"y">>] >>)

-----------------------------------------------------------------------------
(* find_next_page_url called once *)

Hrefs ==
    { EmptyHref, AbsHref("g", <<"p">>), RootHref(<<"page", "2">>), RelHref(<<"2">>) }

\* an <a> element: its href attribute is absent (None) or has a value
Anchors == {[href |-> h] : h \in Hrefs \cup {None}}

\* what soup.find gives for li.next: nothing, or an <li> whose first <a> is
\* absent or is an anchor
LiNextNodes == {None} \cup {[a |-> n] : n \in Anchors \cup {None}}

\* what soup.find gives for a[rel=next]
ARelNextNodes == {None} \cup Anchors

BaseUrls == { URL("h", <<"page", "1">>), URL("h", <<>>), URL("g", <<"p">>) }

InitNext ==
    /\ arg \in {[soup |-> [quotes |-> <<>>, authors |-> <<>>, li_next |-> l, a_rel_next |-> r],
                 base_url |-> b] : l \in LiNextNodes, r \in ARelNextNodes, b \in BaseUrls}
    /\ ret = Pending
    /\ start_url = None /\ max_pages = None /\ visited = {} /\ results = <<>>
    /\ seen_keys = {} /\ url = None /\ pages = 0 /\ soup = None /\ items = <<>>
    /\ idx = 0 /\ pc = "idle" /\ single = <<>> /\ spc = "idle" /\ web = <<>>
    /\ fetched = <<>> /\ encountered = <<>>

CallFindNextPageUrl ==
    /\ ret = Pending
    /\ ret' = Returned(find_next_page_url(arg.soup, arg.base_url))
    /\ UNCHANGED <<arg, crawlVars>>

NextNext == CallFindNextPageUrl

SpecNext == InitNext /\ [][NextNext]_vars

\* the href the i-th strategy reads: None when its parent is absent, when its
\* child query finds nothing, or when the node has no href attribute
StrategyHref(sp, i) ==
    LET parent == sp[NEXT_PAGE_STRATEGIES[i].css.field]
    IN IF parent = None THEN None
       ELSE IF NEXT_PAGE_STRATEGIES[i].child = None THEN parent.href
       ELSE IF parent[NEXT_PAGE_STRATEGIES[i].child.field] = None THEN None
       ELSE parent[NEXT_PAGE_STRATEGIES[i].child.field].href

\* the strategies that yield a link: the relevant node carries a non-empty href
Yielding(sp) ==
    {i \in 1..Len(NEXT_PAGE_STRATEGIES) :
        StrategyHref(sp, i) # None /\ StrategyHref(sp, i) # EmptyHref}

\* C9: the resolver returns the link of the first strategy, in list order, whose
\* relevant node carries a non-empty href, resolved against the page's own URL;
\* strategies without parent, without child or without href are skipped; the
\* result is None exactly when no strategy yields a link
C9_OrderedFallback ==
    ret # Pending =>
        LET good == Yielding(arg.soup)
        IN /\ (good = {}) <=> (ret.val = None)
           /\ good # {} =>
                LET first == CHOOSE i \in good : \A h \in good : i <= h
                    href == StrategyHref(arg.soup, first)
                IN /\ ret.val.tag = "url"
                   /\ href.kind = "abs" => ret.val = URL(href.host, href.path)
                   /\ href.kind = "root" => ret.val = URL(arg.base_url.host, href.path)
                   /\ href.kind = "rel" =>
                        /\ ret.val.host = arg.base_url.host
                        /\ ret.val.path = DirOf(arg.base_url.path) \o href.path
           /\ (arg.soup.li_next = None /\ arg.soup.a_rel_next = [href |-> RootHref(<<"page", "2">>)])
                => ret.val = URL(arg.base_url.host, <<"page", "2">>)

\* strategy 1 finds its parent but the anchor has an empty href; strategy 2
\* finds a relative link, resolved against the directory of the page's URL
C9_Witness ==
    /\ arg.soup.li_next = [a |-> [href |-> EmptyHref]]
    /\ arg.soup.a_rel_next = [href |-> RelHref(<<"2">>)]
    /\ arg.base_url = URL("h", <<"page", "1">>)
    /\ ret = Returned(URL("h", <<"page", "2">>))

====
